---- MODULE Spec2Model ----
(***************************************************************************)
(* Model of the Calibre OPDS server (src/opds_server.py): the catalog      *)
(* held in the SQLite file, the request handlers that query it, the feeds  *)
(* they answer with, the files and file names of the downloads, and the    *)
(* connection each request opens and the teardown closes.                  *)
(*                                                                         *)
(* Text is a sequence of one-character strings, so that LIKE matching and  *)
(* URL quoting are computed character by character.  A request parameter   *)
(* that is absent is the empty text: request.args.get returns None for it, *)
(* and every use of the four filter parameters is a truthiness test, for   *)
(* which None and '' behave alike.                                         *)
(***************************************************************************)
EXTENDS Integers, Sequences, FiniteSets, TLC

VARIABLES
    books,          \* table books: id -> [title, author_sort, last_modified]
    authors_link,   \* books_authors_link joined with authors: {<<book, name>>}
    series_link,    \* books_series_link joined with series:   {<<book, name>>}
    tags_link,      \* books_tags_link joined with tags:       {<<book, name>>}
    data,           \* table data: book id -> its format rows, ORDER BY format
    store,          \* content store: book id -> the book's directory
    phase,          \* "idle" | "responded": position of the request cycle
    g_db_conn,      \* TRUE while flask.g holds this request's connection
    open_conns,     \* connections get_connection opened and nobody closed yet
    req,            \* the request being answered
    resp,           \* the response of the handler
    client,         \* a client paging through one book list: what it asked, what it got
    downloads,      \* the files served so far: {<<book id, format code, file>>}
    db_file,        \* the catalog file: "valid" | "missing" | "corrupt" | "locked"
    validated,      \* CalibreDatabase._validated
    connection_stats, \* CalibreDatabase._connection_stats
    stats_lock,     \* CalibreDatabase._stats_lock: the thread that holds it, 0 if free
    workers,        \* the worker threads, each inside get_connection or the teardown
    history         \* what has happened in the process so far, counted as it happens

vars == <<books, authors_link, series_link, tags_link, data, store, phase, g_db_conn,
          open_conns, req, resp, client, downloads, db_file, validated,
          connection_stats, stats_lock, workers, history>>

catalog == <<books, authors_link, series_link, tags_link, data, store>>

\* the request cycle of the handlers that are modelled one request at a time
request_cycle == <<phase, g_db_conn, open_conns, req, resp, client, downloads>>

\* the bookkeeping of get_connection, modelled call by call in the worker threads
process == <<validated, connection_stats, stats_lock, workers, history>>

----------------------------------------------------------------------------
(* Bounds and input sets *)

MaxBooks == 2

BookIds == 1..MaxBooks

\* the book ids the link tables have rows for
LinkedIds == {1, 2}

TimeValues == {1, 2}

AuthorNames == { <<"L", " ", "C">> }

SeriesNames == { <<"s">> }

TagNames == { <<"t">> }

NoText == <<>>

SearchInputs == { NoText, <<"%", "b">> }

AuthorInputs == { NoText } \cup AuthorNames

SeriesInputs == { NoText } \cup SeriesNames

TagInputs == { NoText } \cup TagNames

LimitInputs == { -1, 0, 1, 2, 101 }

OffsetInputs == { -1, 0, 1 }

PageSizes == { 1, 2 }

\* title and author_sort of the book rows, by id
TitleOf(id) ==
    IF id % 3 = 1 THEN <<"c">> ELSE IF id % 3 = 2 THEN <<"d">> ELSE <<"b", " ">>

AuthorSortOf(id) ==
    IF id % 3 = 1 THEN <<"A", "b">> ELSE IF id % 3 = 2 THEN <<"c">> ELSE <<"d">>

----------------------------------------------------------------------------
(* Python and SQLite primitives *)

\* the limit cap of min(int(...), 100)
MaxLimit == 100

Min(a, b) == IF a <= b THEN a ELSE b

Max(a, b) == IF a >= b THEN a ELSE b

\* Python's // for a non-zero divisor: the quotient rounded towards minus infinity
PyFloorDiv(a, b) ==
    IF b > 0 THEN a \div b
    ELSE (0 - a) \div (0 - b)

\* bool(text): a text is truthy unless empty
Truthy(t) == t # NoText

\* SQLite's ASCII case folding, as LIKE applies it
Lower(c) ==
    IF c = "A" THEN "a" ELSE IF c = "B" THEN "b" ELSE IF c = "C" THEN "c" ELSE c

\* X LIKE pat in SQLite: % matches any run of characters, _ exactly one,
\* every other character itself without regard to ASCII case
RECURSIVE LikeMatch(_, _)
LikeMatch(pat, txt) ==
    IF pat = <<>> THEN txt = <<>>
    ELSE IF Head(pat) = "%"
         THEN \E k \in 0..Len(txt) : LikeMatch(Tail(pat), SubSeq(txt, k + 1, Len(txt)))
         ELSE /\ txt # <<>>
              /\ \/ Head(pat) = "_"
                 \/ Lower(Head(pat)) = Lower(Head(txt))
              /\ LikeMatch(Tail(pat), Tail(txt))

\* f"%{search}%"
SearchTerm(search) == <<"%">> \o search \o <<"%">>

\* rows LIMIT limit OFFSET offset in SQLite: a negative LIMIT is no limit,
\* a negative OFFSET is 0
SqlLimitOffset(rows, limit, offset) ==
    LET off  == Max(offset, 0)
        rest == IF off >= Len(rows) THEN <<>> ELSE SubSeq(rows, off + 1, Len(rows))
    IN  IF limit < 0 THEN rest
        ELSE SubSeq(rest, 1, Min(limit, Len(rest)))

\* the orders in which SQLite may return the rows of `ids` under
\* ORDER BY b.last_modified DESC: rows with equal keys come in any order
OrderByLastModifiedDesc(ids) ==
    { o \in [1..Cardinality(ids) -> ids] :
        /\ \A i, j \in DOMAIN o : i # j => o[i] # o[j]
        /\ \A i, j \in DOMAIN o :
              i < j => books[o[i]].last_modified >= books[o[j]].last_modified }

----------------------------------------------------------------------------
(* URL quoting of the link targets and its decoding by the server *)

\* urllib.parse.quote: letters, digits and _ . - ~ / are kept, every other
\* character becomes its percent escape
QuoteChar(c) ==
    IF c = "%" THEN <<"%", "2", "5">>
    ELSE IF c = " " THEN <<"%", "2", "0">>
    ELSE IF c = "+" THEN <<"%", "2", "B">>
    ELSE <<c>>

RECURSIVE Quote(_)
Quote(t) == IF t = <<>> THEN <<>> ELSE QuoteChar(Head(t)) \o Quote(Tail(t))

\* the query-string decoding behind request.args: + is a space, %XX is the
\* character with that code, anything else stands for itself
RECURSIVE Unquote(_)
Unquote(t) ==
    IF t = <<>> THEN <<>>
    ELSE IF Head(t) = "+" THEN <<" ">> \o Unquote(Tail(t))
    ELSE IF Head(t) = "%" /\ Len(t) >= 3 /\ SubSeq(t, 2, 3) = <<"2", "5">>
         THEN <<"%">> \o Unquote(SubSeq(t, 4, Len(t)))
    ELSE IF Head(t) = "%" /\ Len(t) >= 3 /\ SubSeq(t, 2, 3) = <<"2", "0">>
         THEN <<" ">> \o Unquote(SubSeq(t, 4, Len(t)))
    ELSE IF Head(t) = "%" /\ Len(t) >= 3 /\ SubSeq(t, 2, 3) = <<"2", "B">>
         THEN <<"+">> \o Unquote(SubSeq(t, 4, Len(t)))
    ELSE <<Head(t)>> \o Unquote(Tail(t))

\* request.args.get(key) on a query string given as <<key, value>> pairs
ArgOf(href, key, default) ==
    IF \E i \in DOMAIN href : href[i][1] = key
    THEN href[CHOOSE i \in DOMAIN href :
                 /\ href[i][1] = key
                 /\ \A j \in DOMAIN href : href[j][1] = key => i <= j][2]
    ELSE default

\* the request a client makes when it follows the link href
RequestOfLink(href) ==
    [ search |-> Unquote(ArgOf(href, "search", NoText)),
      author |-> Unquote(ArgOf(href, "author", NoText)),
      series |-> Unquote(ArgOf(href, "series", NoText)),
      tag    |-> Unquote(ArgOf(href, "tag", NoText)),
      limit  |-> ArgOf(href, "limit", 20),
      offset |-> ArgOf(href, "offset", 0) ]

----------------------------------------------------------------------------
(* The book queries of opds_books *)

\* " AND ".join(filters)
RECURSIVE JoinAnd(_)
JoinAnd(fs) ==
    IF Len(fs) <= 1 THEN fs ELSE <<Head(fs), "AND">> \o JoinAnd(Tail(fs))

\* filters, one entry per truthy parameter
BookFilters(search, author, series, tag) ==
    (IF Truthy(search) THEN <<"search">> ELSE <<>>)
    \o (IF Truthy(author) THEN <<"author">> ELSE <<>>)
    \o (IF Truthy(series) THEN <<"series">> ELSE <<>>)
    \o (IF Truthy(tag) THEN <<"tag">> ELSE <<>>)

\* params, the values bound to the ? of filters in order
BookParams(search, author, series, tag) ==
    (IF Truthy(search) THEN <<SearchTerm(search), SearchTerm(search)>> ELSE <<>>)
    \o (IF Truthy(author) THEN <<author>> ELSE <<>>)
    \o (IF Truthy(series) THEN <<series>> ELSE <<>>)
    \o (IF Truthy(tag) THEN <<tag>> ELSE <<>>)

\* the WHERE clause and parameters of _get_filtered_books
FilteredBooksQuery(search, author, series, tag, limit, offset) ==
    LET filters == BookFilters(search, author, series, tag)
    IN  [ where  |-> IF filters # <<>> THEN <<"WHERE">> \o JoinAnd(filters) ELSE <<>>,
          params |-> BookParams(search, author, series, tag) \o <<limit, offset>> ]

\* _get_filtered_count with the series clause glued on the search test alone:
\* author and series together give  WHERE ... WHERE ...
FilteredCountQuery_SeriesGlue(search, author, series, tag) ==
    LET s == IF Truthy(search) THEN <<"WHERE", "search">> ELSE <<>>
        a == IF Truthy(author)
             THEN (IF ~Truthy(search) THEN <<"WHERE", "author">> ELSE <<"AND", "author">>)
             ELSE <<>>
        r == IF Truthy(series)
             THEN (IF ~Truthy(search) THEN <<"WHERE">> ELSE <<"AND">>) \o <<"series">>
             ELSE <<>>
        t == IF Truthy(tag)
             THEN (IF ~Truthy(search) /\ ~Truthy(author) /\ ~Truthy(series)
                   THEN <<"WHERE">> ELSE <<"AND">>)
                  \o <<"tag">>
             ELSE <<>>
    IN  [ where  |-> s \o a \o r \o t,
          params |-> BookParams(search, author, series, tag) ]

\* the WHERE clause and parameters of _get_filtered_count
FilteredCountQuery(search, author, series, tag) ==
    LET filters == BookFilters(search, author, series, tag)
        s == IF Truthy(search) THEN <<"WHERE", "search">> ELSE <<>>
        a == IF Truthy(author)
             THEN (IF ~Truthy(search) THEN <<"WHERE", "author">> ELSE <<"AND", "author">>)
             ELSE <<>>
        r == IF Truthy(series)
             THEN (IF ~Truthy(search) /\ ~Truthy(author) THEN <<"WHERE">> ELSE <<"AND">>)
                  \o <<"series">>
             ELSE <<>>
        t == IF Truthy(tag)
             THEN (IF ~Truthy(search) /\ ~Truthy(author) /\ ~Truthy(series)
                   THEN <<"WHERE">> ELSE <<"AND">>)
                  \o <<"tag">>
             ELSE <<>>
    IN  IF filters # <<>>
        THEN [ where  |-> s \o a \o r \o t,
               params |-> (IF Truthy(search)
                           THEN <<SearchTerm(search), SearchTerm(search)>> ELSE <<>>)
                          \o (IF Truthy(author) THEN <<author>> ELSE <<>>)
                          \o (IF Truthy(series) THEN <<series>> ELSE <<>>)
                          \o (IF Truthy(tag) THEN <<tag>> ELSE <<>>) ]
        ELSE [ where |-> <<>>, params |-> <<>> ]

CondNames == {"search", "author", "series", "tag"}

\* a WHERE clause SQLite parses: WHERE cond (AND cond)*
SqlWellFormed(where) ==
    /\ Len(where) % 2 = 0
    /\ \A i \in DOMAIN where :
          IF i % 2 = 0 THEN where[i] \in CondNames
          ELSE where[i] = (IF i = 1 THEN "WHERE" ELSE "AND")

CondsOf(where) == SelectSeq(where, LAMBDA w : w \in CondNames)

\* the number of ? in a condition list
RECURSIVE Placeholders(_)
Placeholders(conds) ==
    IF conds = <<>> THEN 0
    ELSE (IF Head(conds) = "search" THEN 2 ELSE 1) + Placeholders(Tail(conds))

\* the statement executes: it parses and every ? has its value
Executes(q, extra) ==
    /\ SqlWellFormed(q.where)
    /\ Len(q.params) = Placeholders(CondsOf(q.where)) + extra

\* the conjunction of the conditions on book row id, the ? bound in order
RECURSIVE RowMatches(_, _, _)
RowMatches(conds, params, id) ==
    IF conds = <<>> THEN TRUE
    ELSE IF Head(conds) = "search"
         THEN /\ \/ LikeMatch(params[1], books[id].title)
                 \/ LikeMatch(params[2], books[id].author_sort)
              /\ RowMatches(Tail(conds), SubSeq(params, 3, Len(params)), id)
    ELSE IF Head(conds) = "author"
         THEN /\ <<id, params[1]>> \in authors_link
              /\ RowMatches(Tail(conds), Tail(params), id)
    ELSE IF Head(conds) = "series"
         THEN /\ <<id, params[1]>> \in series_link
              /\ RowMatches(Tail(conds), Tail(params), id)
    ELSE /\ <<id, params[1]>> \in tags_link
         /\ RowMatches(Tail(conds), Tail(params), id)

\* the book ids a query over FROM books b selects
SelectedIds(q) ==
    { id \in DOMAIN books : RowMatches(CondsOf(q.where), q.params, id) }

\* cursor.fetchall() of _get_filtered_books when SQLite returns the selected
\* rows in the order `order`
FetchBooks(q, order) ==
    LET n == Placeholders(CondsOf(q.where))
    IN  SqlLimitOffset(order, q.params[n + 1], q.params[n + 2])

\* cursor.fetchone()[0] of _get_filtered_count: COUNT(DISTINCT b.id)
FetchCount(q) == Cardinality(SelectedIds(q))

----------------------------------------------------------------------------
(* Requests and responses *)

NoRequest == [ route |-> "none" ]

NoResponse == [ status |-> 0, kind |-> "none" ]

NoClient == [ started |-> FALSE ]

\* return NotFound()
NotFoundResponse == [ status |-> 404, kind |-> "error" ]

----------------------------------------------------------------------------
(* The queries of CalibreDatabase.get_all_books and get_books_count *)

\* the WHERE clause and parameters of get_all_books
AllBooksQuery(limit, offset, search) ==
    LET conditions == IF Truthy(search) THEN <<"search">> ELSE <<>>
        params     == IF Truthy(search)
                      THEN <<SearchTerm(search), SearchTerm(search)>> ELSE <<>>
    IN  [ where  |-> IF conditions # <<>> THEN <<"WHERE">> \o JoinAnd(conditions) ELSE <<>>,
          params |-> params \o <<limit, offset>> ]

\* the row orders the statement of get_all_books may come back in, before
\* LIMIT and OFFSET cut the page out
AllBooksOrders(search) ==
    OrderByLastModifiedDesc(SelectedIds(AllBooksQuery(0, 0, search)))

\* get_all_books when SQLite returns the selected rows in the order `order`
GetAllBooks(limit, offset, search, order) ==
    FetchBooks(AllBooksQuery(limit, offset, search), order)

\* get_books_count
GetBooksCount(search) ==
    IF Truthy(search)
    THEN Cardinality({ id \in DOMAIN books :
                         \/ LikeMatch(SearchTerm(search), books[id].title)
                         \/ LikeMatch(SearchTerm(search), books[id].author_sort) })
    ELSE Cardinality(DOMAIN books)

----------------------------------------------------------------------------
(* The facet listings of opds_authors, opds_series and opds_tags *)

\* the join without its  JOIN books b:  every link row counts
FacetJoin_LinkRowsOnly(names, link) ==
    { r \in names \X LinkedIds : <<r[2], r[1]>> \in link }

\* the rows of  facet JOIN link ON facet.id = link.facet JOIN books b ON
\* link.book = b.id,  as <<facet name, book id>>
FacetJoin(names, link) ==
    { r \in names \X DOMAIN books : <<r[2], r[1]>> \in link }

\* GROUP BY facet: one row per facet value that has a joined row, with
\* COUNT(b.id) the number of joined rows of the group
FacetGroups(names, link) ==
    { [ name       |-> n,
        book_count |-> Cardinality({ r \in FacetJoin(names, link) : r[1] = n }) ] :
      n \in { r[1] : r \in FacetJoin(names, link) } }

CharCode(c) ==
    IF c = " " THEN 32 ELSE IF c = "%" THEN 37 ELSE IF c = "+" THEN 43
    ELSE IF c = "A" THEN 65 ELSE IF c = "B" THEN 66 ELSE IF c = "C" THEN 67
    ELSE IF c = "L" THEN 76 ELSE IF c = "_" THEN 95 ELSE IF c = "a" THEN 97
    ELSE IF c = "b" THEN 98 ELSE IF c = "c" THEN 99 ELSE IF c = "d" THEN 100
    ELSE IF c = "s" THEN 115 ELSE IF c = "t" THEN 116 ELSE 120

\* x <= y for text values
RECURSIVE TextLeq(_, _)
TextLeq(x, y) ==
    IF x = <<>> THEN TRUE
    ELSE IF y = <<>> THEN FALSE
    ELSE IF CharCode(Head(x)) # CharCode(Head(y)) THEN CharCode(Head(x)) < CharCode(Head(y))
    ELSE TextLeq(Tail(x), Tail(y))

\* the orders SQLite may return the groups in under ORDER BY the facet's sort
\* column (the name, for the facet rows of the catalogs here)
OrderBySort(groups) ==
    { o \in [1..Cardinality(groups) -> groups] :
        /\ \A i, j \in DOMAIN o : i # j => o[i] # o[j]
        /\ \A i, j \in DOMAIN o : i < j => TextLeq(o[i].name, o[j].name) }

\* the try block of a facet handler: the listed rows, or NotFound() for the
\* division by a limit of 0 in the feed title
FacetResponse(route, names, link, limit, offset, order) ==
    IF limit = 0 THEN NotFoundResponse
    ELSE [ status  |-> 200,
           kind    |-> "navigation",
           facet   |-> route,
           entries |-> SqlLimitOffset(order, limit, offset),
           page    |-> PyFloorDiv(offset, limit) + 1 ]

----------------------------------------------------------------------------
(* The feed of opds_books *)

\* query_params of opds_books: the quoted filters, then limit and offset
QueryParams(search, author, series, tag, limit, offset) ==
    (IF Truthy(search) THEN << <<"search", Quote(search)>> >> ELSE <<>>)
    \o (IF Truthy(author) THEN << <<"author", Quote(author)>> >> ELSE <<>>)
    \o (IF Truthy(series) THEN << <<"series", Quote(series)>> >> ELSE <<>>)
    \o (IF Truthy(tag) THEN << <<"tag", Quote(tag)>> >> ELSE <<>>)
    \o << <<"limit", limit>>, <<"offset", offset>> >>

\* the link parameters with the offset left as it is
WithOffset_Unchanged(query_params, o) == query_params

\* params.copy() with params[-1] = f'offset={o}'
WithOffset(query_params, o) ==
    [query_params EXCEPT ![Len(query_params)] = <<"offset", o>>]

\* a next link also when the page ends exactly at the last book
HasNext_Inclusive(offset, limit, total_books) == offset + limit <= total_books

\* the condition of the rel="next" link
HasNext(offset, limit, total_books) == offset + limit < total_books

\* the condition of the rel="previous" link
HasPrevious(offset) == offset > 0

\* prev_offset without the max(0, ...)
PrevOffset_Unclamped(offset, limit) == offset - limit

\* prev_offset
PrevOffset(offset, limit) == Max(0, offset - limit)

\* current_page
CurrentPage(offset, limit) == PyFloorDiv(offset, limit) + 1

\* total_pages
TotalPages(total_books, limit) == PyFloorDiv(total_books + limit - 1, limit)

\* the facet the feed title names: author, else series, else tag, else search
TitleFacet(search, author, series, tag) ==
    IF Truthy(author) THEN "author"
    ELSE IF Truthy(series) THEN "series"
    ELSE IF Truthy(tag) THEN "tag"
    ELSE IF Truthy(search) THEN "search"
    ELSE "latest"

\* the feed opds_books renders from the fetched rows and the count
BooksFeed(fetched, total_books, query_params, limit, offset, facet) ==
    [ status         |-> 200,
      kind           |-> "feed",
      entries        |-> fetched,
      total_results  |-> total_books,
      start_index    |-> offset,
      items_per_page |-> limit,
      self           |-> query_params,
      next           |-> IF HasNext(offset, limit, total_books)
                         THEN WithOffset(query_params, offset + limit)
                         ELSE <<>>,
      previous       |-> IF HasPrevious(offset)
                         THEN WithOffset(query_params, PrevOffset(offset, limit))
                         ELSE <<>>,
      current_page   |-> CurrentPage(offset, limit),
      total_pages    |-> TotalPages(total_books, limit),
      title          |-> facet ]

\* the try block of opds_books for the clamped limit and the offset, when
\* SQLite returns the selected rows in the order `order`; any exception
\* (a statement that fails, the division by a limit of 0) ends in NotFound()
OpdsBooksResponse(search, author, series, tag, limit, offset, order) ==
    LET q  == FilteredBooksQuery(search, author, series, tag, limit, offset)
        cq == FilteredCountQuery(search, author, series, tag)
    IN  IF ~Executes(q, 2) \/ ~Executes(cq, 0) \/ limit = 0
        THEN NotFoundResponse
        ELSE BooksFeed(FetchBooks(q, order), FetchCount(cq),
                       QueryParams(search, author, series, tag, limit, offset),
                       limit, offset, TitleFacet(search, author, series, tag))

\* the row orders the list statement of opds_books may come back in, before
\* LIMIT and OFFSET cut the page out
BookOrders(search, author, series, tag) ==
    LET q == FilteredBooksQuery(search, author, series, tag, 0, 0)
    IN  IF Executes(q, 2) THEN OrderByLastModifiedDesc(SelectedIds(q)) ELSE { <<>> }

----------------------------------------------------------------------------
(* Python text operations used by download_book and create_entry *)

UpperLetters ==
    << "A", "B", "C", "D", "E", "F", "G", "H", "I", "J", "K", "L", "M",
       "N", "O", "P", "Q", "R", "S", "T", "U", "V", "W", "X", "Y", "Z" >>

LowerLetters ==
    << "a", "b", "c", "d", "e", "f", "g", "h", "i", "j", "k", "l", "m",
       "n", "o", "p", "q", "r", "s", "t", "u", "v", "w", "x", "y", "z" >>

\* the character c under a change of case that maps from[i] to to[i]
MapCase(c, from, to) ==
    IF \E i \in DOMAIN from : from[i] = c
    THEN to[CHOOSE i \in DOMAIN from : from[i] = c]
    ELSE c

\* str.lower()
StrLower(t) == [ i \in 1..Len(t) |-> MapCase(t[i], UpperLetters, LowerLetters) ]

\* str.upper()
StrUpper(t) == [ i \in 1..Len(t) |-> MapCase(t[i], LowerLetters, UpperLetters) ]

\* str.endswith
EndsWith(t, suffix) ==
    /\ Len(suffix) <= Len(t)
    /\ SubSeq(t, Len(t) - Len(suffix) + 1, Len(t)) = suffix

\* str.startswith
StartsWith(t, prefix) ==
    /\ Len(prefix) <= Len(t)
    /\ SubSeq(t, 1, Len(prefix)) = prefix

\* the characters str.strip() removes, of those the titles are made of
Whitespace == { " ", "\t" }

\* t.strip() == "" (true of the empty text as well)
IsBlank(t) == \A i \in 1..Len(t) : t[i] \in Whitespace

\* the character class of re.sub(r'[<>:"/\\|?*]', '', ...)
IllegalChars == { "<", ">", ":", "\"", "/", "\\", "|", "?", "*" }

\* nothing removed
RemoveIllegal_Nothing(t) == t

\* re.sub(r'[<>:"/\\|?*]', '', t)
RemoveIllegal(t) == SelectSeq(t, LAMBDA c : c \notin IllegalChars)

\* t.replace(' ', '_')
ReplaceSpaces(t) == [ i \in 1..Len(t) |-> IF t[i] = " " THEN "_" ELSE t[i] ]

\* os.path.splitext(p)[0] for a name without path separators: the part before
\* the last dot, unless only dots come before it
SplitextRoot(p) ==
    LET dots == { i \in 1..Len(p) : p[i] = "." }
    IN  IF dots = {} THEN p
        ELSE LET dotIndex == CHOOSE i \in dots : \A j \in dots : j <= i
             IN  IF \E k \in 1..(dotIndex - 1) : p[k] # "."
                 THEN SubSeq(p, 1, dotIndex - 1)
                 ELSE p

DecimalDigits == << "0", "1", "2", "3", "4", "5", "6", "7", "8", "9" >>

\* str(n) for n >= 0
RECURSIVE DecimalText(_)
DecimalText(n) ==
    IF n < 10 THEN << DecimalDigits[n + 1] >>
    ELSE DecimalText(n \div 10) \o << DecimalDigits[(n % 10) + 1] >>

\* safe_convert_text on a str: a text with a replacement character or a box
\* is encoded as latin-1, which raises UnicodeEncodeError for these very
\* characters, and is returned as it came; every other text is returned as
\* it came as well
SafeConvertText(t) == t

----------------------------------------------------------------------------
(* Format codes, their extensions and MIME types *)

EPUB == << "E", "P", "U", "B" >>

PDF == << "P", "D", "F" >>

MOBI == << "M", "O", "B", "I" >>

AZW3 == << "A", "Z", "W", "3" >>

FB2 == << "F", "B", "2" >>

RTF == << "R", "T", "F" >>

TXT == << "T", "X", "T" >>

HTML == << "H", "T", "M", "L" >>

LIT == << "L", "I", "T" >>

\* the keys of format_extension_map
ExtensionTableCodes == { EPUB, PDF, MOBI, AZW3, FB2, RTF, TXT, HTML, LIT }

\* '.epub'
DotEpub == << ".", "e", "p", "u", "b" >>

\* format_extension_map.get(code, default): '.' followed by the code in
\* lower case for the nine codes of the table
FormatExtensionMapGet(code, default) ==
    IF code \in ExtensionTableCodes THEN << "." >> \o StrLower(code) ELSE default

\* OPDSGenerator.get_mime_type
get_mime_type(format_name) ==
    LET code == StrUpper(format_name)
    IN  IF code = EPUB THEN "application/epub+zip"
        ELSE IF code = PDF THEN "application/pdf"
        ELSE IF code = MOBI THEN "application/x-mobipocket-ebook"
        ELSE IF code = AZW3 THEN "application/vnd.amazon.ebook"
        ELSE IF code = FB2 THEN "application/x-fictionbook+xml"
        ELSE IF code = RTF THEN "application/rtf"
        ELSE IF code = TXT THEN "text/plain"
        ELSE IF code = HTML THEN "text/html"
        ELSE IF code = LIT THEN "application/x-ms-reader"
        ELSE "application/octet-stream"

----------------------------------------------------------------------------
(* File resolution of download_book.  A file is named by its name inside the
   book's directory base_books_path/book.path; the on-record names and the
   directory entries are plain names (no separator, not '.' or '..'), which
   os.path.join and os.path.normpath leave as they are. *)

\* a book directory that is not on the content store
NoDirectory == [ exists |-> FALSE, listing |-> <<>> ]

\* no file
NoFile == <<>>

\* os.path.exists of the file `name` of the directory dir
FileExists(dir, name) ==
    /\ dir.exists
    /\ \E i \in DOMAIN dir.listing : dir.listing[i] = name

\* the extension the candidates are built with
ResolutionExtension(format_code) == FormatExtensionMapGet(StrUpper(format_code), NoText)

\* base_filename as the handler sets it from the URL: None
BaseFilename_FromUrl(filename) == filename

BaseFilename(filename) == NoText

\* step 4: the directory entries, in listing order, that end with the
\* extension or start with the base file name
RECURSIVE ScanDirectory(_, _, _)
ScanDirectory(listing, ext, base_filename) ==
    IF listing = <<>> THEN <<>>
    ELSE LET file       == Head(listing)
             file_lower == StrLower(file)
         IN  (IF Truthy(ext) /\ EndsWith(file_lower, StrLower(ext))
              THEN << file >> ELSE <<>>)
             \o (IF Truthy(base_filename) /\ StartsWith(file_lower, StrLower(base_filename))
                 THEN << file >> ELSE <<>>)
             \o ScanDirectory(Tail(listing), ext, base_filename)

\* possible_files with the directory scan put first
PossibleFiles_ScanFirst(db_filename, ext, base_filename, dir) ==
    (IF dir.exists THEN ScanDirectory(dir.listing, ext, base_filename) ELSE <<>>)
    \o << db_filename >>
    \o (IF Truthy(ext) /\ ~EndsWith(StrLower(db_filename), StrLower(ext))
        THEN << db_filename \o ext >> ELSE <<>>)

\* possible_files: the candidates in the order the handler appends them
PossibleFiles(db_filename, ext, base_filename, dir) ==
    << db_filename >>
    \o (IF Truthy(ext) /\ ~EndsWith(StrLower(db_filename), StrLower(ext))
        THEN << db_filename \o ext >> ELSE <<>>)
    \o (IF Truthy(base_filename) THEN << base_filename \o ext >> ELSE <<>>)
    \o (IF dir.exists THEN ScanDirectory(dir.listing, ext, base_filename) ELSE <<>>)

\* the first candidate, whether it exists or not
FirstExisting_Unchecked(possible_files, dir) == Head(possible_files)

\* full_path: the first candidate that exists, NoFile if none does
FirstExisting(possible_files, dir) ==
    LET found == { i \in DOMAIN possible_files : FileExists(dir, possible_files[i]) }
    IN  IF found = {} THEN NoFile
        ELSE possible_files[CHOOSE i \in found : \A j \in found : i <= j]

----------------------------------------------------------------------------
(* The download file name of download_book *)

\* '书籍_': the characters U+4E66 U+7C4D and an underscore
DefaultPrefix == << "U+4E66", "U+7C4D", "_" >>

\* f"书籍_{book_id}{format_extension}"
DefaultFilename(book_id, format_extension) ==
    DefaultPrefix \o DecimalText(book_id) \o format_extension

\* the extension of the download name
DownloadExtension(format_code) == FormatExtensionMapGet(StrUpper(format_code), DotEpub)

\* a title that is empty only
TitleIsBlank_EmptyOnly(safe_title) == safe_title = <<>>

\* not safe_title or safe_title.strip() == ""
TitleIsBlank(safe_title) == safe_title = <<>> \/ IsBlank(safe_title)

\* the test before the extension is appended, without the lower()
NeedsExtension_CaseSensitive(safe_filename, format_extension) ==
    ~EndsWith(safe_filename, format_extension)

\* not safe_filename.lower().endswith(format_extension.lower())
NeedsExtension(safe_filename, format_extension) ==
    ~EndsWith(StrLower(safe_filename), StrLower(format_extension))

\* safe_filename as download_book passes it to send_file
DownloadName(book_id, book_title, format_code) ==
    LET format_extension == DownloadExtension(format_code)
        safe_title       == SafeConvertText(book_title)
    IN  IF TitleIsBlank(safe_title)
        THEN DefaultFilename(book_id, format_extension)
        ELSE LET stripped  == ReplaceSpaces(RemoveIllegal(safe_title))
                 suffixed  == IF NeedsExtension(stripped, format_extension)
                              THEN stripped \o format_extension
                              ELSE stripped
                 base_name == SplitextRoot(suffixed)
             IN  IF base_name = <<>> \/ base_name = format_extension \/ IsBlank(base_name)
                 THEN DefaultFilename(book_id, format_extension)
                 ELSE suffixed

----------------------------------------------------------------------------
(* download_book and the entry of opds_book_detail *)

\* a download answered with an error
DownloadError(status, reason, available_formats) ==
    [ status            |-> status,
      kind              |-> "error",
      reason            |-> reason,
      available_formats |-> available_formats,
      file              |-> NoFile,
      download_name     |-> NoText,
      mimetype          |-> "" ]

\* the index of the first format row whose code is the requested one without
\* regard to case, 0 if there is none
TargetFormat(formats, requested_format) ==
    LET hits == { i \in DOMAIN formats : StrUpper(formats[i].format) = requested_format }
    IN  IF hits = {} THEN 0 ELSE CHOOSE i \in hits : \A j \in hits : i <= j

\* the format codes without the first
AvailableFormats_SkipFirst(formats) ==
    [ i \in 1..(Len(formats) - 1) |-> formats[i + 1].format ]

\* available_formats = [fmt['format'] for fmt in book['formats']]
AvailableFormats(formats) == [ i \in DOMAIN formats |-> formats[i].format ]

\* the answer of download_book when the catalog can be read
DownloadBookResponse(book_id, filename) ==
    IF book_id \notin DOMAIN books
    THEN DownloadError(404, "book", <<>>)
    ELSE LET formats          == data[book_id]
             requested_format == StrUpper(filename)
             t                == TargetFormat(formats, requested_format)
         IN  IF t = 0
             THEN DownloadError(404, "format", AvailableFormats(formats))
             ELSE LET target_format  == formats[t]
                      ext            == ResolutionExtension(target_format.format)
                      possible_files == PossibleFiles(target_format.filename, ext,
                                                      BaseFilename(filename), store[book_id])
                      full_path      == FirstExisting(possible_files, store[book_id])
                  IN  IF full_path = NoFile
                      THEN DownloadError(404, "file", <<>>)
                      ELSE [ status            |-> 200,
                             kind              |-> "file",
                             reason            |-> "",
                             available_formats |-> <<>>,
                             file              |-> full_path,
                             download_name     |-> DownloadName(book_id, books[book_id].title,
                                                                target_format.format),
                             mimetype          |-> get_mime_type(target_format.format) ]

\* every link marked as the primary one
AcquisitionRel_AllPrimary(formats, i) == "http://opds-spec.org/acquisition/open-access"

\* the rel of the link of formats[i]: fmt == book_data['formats'][0] compares
\* the format rows as dicts
AcquisitionRel(formats, i) ==
    IF formats[i] = formats[1]
    THEN "http://opds-spec.org/acquisition/open-access"
    ELSE "http://opds-spec.org/acquisition"

\* the download links OPDSGenerator.create_entry gives the entry of a book
create_entry(book_id, formats) ==
    [ i \in DOMAIN formats |->
        [ rel    |-> AcquisitionRel(formats, i),
          book   |-> book_id,
          format |-> formats[i].format,
          type   |-> get_mime_type(formats[i].format) ] ]

----------------------------------------------------------------------------
(* The process: the catalog file, the validation flag, the connection
   counters with their lock, and the worker threads *)

DbFileStates == { "valid", "missing", "corrupt", "locked" }

\* a catalog that a statement cannot be run on
StoreFails == db_file # "valid"

\* sqlite3.connect succeeds and get_connection stores the connection in g: the
\* file is there and is a catalog (a lock that another process took after the
\* file was validated does not stop sqlite3.connect, it stops the statements)
ConnectionMade == db_file \in { "valid", "locked" }

MaxThreads == 2

Threads == 1..MaxThreads

\* the keys of _connection_stats
StatKeys == { "created", "reused", "closed", "errors" }

ZeroStats == [ k \in StatKeys |-> 0 ]

\* a worker thread between requests.  pc is its place in the code, conn the
\* connection in its g (0: none), calls the calls of get_connection its handler
\* still makes, key and tmp the counter it increments and the value it read;
\* made, reuses and returned record what get_connection did in its request,
\* snapshot and events what its last get_connection_stats copied and how many
\* increments had been completed then
IdleWorker ==
    [ pc |-> "idle", conn |-> 0, calls |-> 0, key |-> "none", tmp |-> 0,
      made |-> 0, reuses |-> 0, returned |-> {}, snapshot |-> ZeroStats,
      events |-> ZeroStats ]

\* the process after db = CalibreDatabase(): nothing validated, the counters 0.
\* history counts what has happened: the requests begun, the validations run,
\* and the connections made, reused and closed and the errors raised, each at
\* the step where it happens.  The handlers below answer a request in one
\* step; the calls of get_connection with their bookkeeping are taken apart,
\* statement by statement, in the worker threads further down.
ProcessStart ==
    /\ validated = FALSE
    /\ connection_stats = ZeroStats
    /\ stats_lock = 0
    /\ workers = [ t \in Threads |-> IdleWorker ]
    /\ history = [ requests |-> 0, validations |-> 0, created |-> 0, reused |-> 0,
                   closed |-> 0, errors |-> 0 ]

\* the answer of Flask to an exception that leaves the handler
InternalServerError == [ status |-> 500, kind |-> "error" ]

----------------------------------------------------------------------------
(* The state machine *)

\* the catalogs: books 1..n with any last_modified, link rows to any book id
\* (a link row may outlive its book)
Init ==
    /\ \E n \in 0..MaxBooks :
          books \in { [id \in 1..n |-> [ title         |-> TitleOf(id),
                                         author_sort   |-> AuthorSortOf(id),
                                         last_modified |-> lm[id] ]] :
                      lm \in [1..n -> TimeValues] }
    /\ authors_link \in SUBSET (LinkedIds \X AuthorNames)
    /\ series_link \in SUBSET (LinkedIds \X SeriesNames)
    /\ tags_link \in SUBSET (LinkedIds \X TagNames)
    /\ data = [id \in DOMAIN books |-> <<>>]
    /\ store = [id \in DOMAIN books |-> NoDirectory]
    /\ phase = "idle"
    /\ g_db_conn = FALSE
    /\ open_conns = 0
    /\ req = NoRequest
    /\ resp = NoResponse
    /\ client = NoClient
    /\ downloads = {}
    /\ db_file = "valid"
    /\ ProcessStart

\* GET /opds/books
opds_books ==
    /\ phase = "idle"
    /\ \E search \in SearchInputs, author \in AuthorInputs, series \in SeriesInputs,
          tag \in TagInputs :
       \E order \in BookOrders(search, author, series, tag) :
          \E limit_arg \in LimitInputs, offset_arg \in OffsetInputs :
             LET limit  == Min(limit_arg, MaxLimit)
                 offset == offset_arg
             IN  /\ req' = [ route |-> "opds_books", search |-> search, author |-> author,
                             series |-> series, tag |-> tag,
                             limit |-> limit_arg, offset |-> offset_arg ]
                 /\ resp' = IF StoreFails THEN NotFoundResponse
                            ELSE OpdsBooksResponse(search, author, series, tag,
                                                   limit, offset, order)
    /\ g_db_conn' = ConnectionMade
    /\ open_conns' = IF ConnectionMade THEN open_conns + 1 ELSE open_conns
    /\ phase' = "responded"
    /\ UNCHANGED <<catalog, client, downloads, db_file, process>>

\* one facet handler: GET /opds/authors, /opds/series or /opds/tags
FacetHandler(route, names, link) ==
    /\ phase = "idle"
    /\ \E limit_arg \in LimitInputs, offset_arg \in OffsetInputs :
          LET limit  == Min(limit_arg, MaxLimit)
              offset == offset_arg
          IN  \E order \in OrderBySort(FacetGroups(names, link)) :
                 /\ req' = [ route |-> route, limit |-> limit_arg, offset |-> offset_arg ]
                 /\ resp' = IF StoreFails THEN NotFoundResponse
                            ELSE FacetResponse(route, names, link, limit, offset, order)
    /\ g_db_conn' = ConnectionMade
    /\ open_conns' = IF ConnectionMade THEN open_conns + 1 ELSE open_conns
    /\ phase' = "responded"
    /\ UNCHANGED <<catalog, client, downloads, db_file, process>>

\* GET /opds/authors
opds_authors == FacetHandler("opds_authors", AuthorNames, authors_link)

\* GET /opds/series
opds_series == FacetHandler("opds_series", SeriesNames, series_link)

\* GET /opds/tags
opds_tags == FacetHandler("opds_tags", TagNames, tags_link)

\* GET /api/books
api_books ==
    /\ phase = "idle"
    /\ \E search \in SearchInputs :
       \E order \in AllBooksOrders(search) :
          \E limit \in LimitInputs, offset \in OffsetInputs :
             /\ req' = [ route |-> "api_books", search |-> search,
                         limit |-> limit, offset |-> offset ]
             /\ resp' = IF StoreFails THEN InternalServerError
                        ELSE [ status |-> 200,
                               kind   |-> "json",
                               books  |-> GetAllBooks(limit, offset, search, order),
                               total  |-> Len(GetAllBooks(limit, offset, search, order)),
                               limit  |-> limit,
                               offset |-> offset ]
    /\ g_db_conn' = ConnectionMade
    /\ open_conns' = IF ConnectionMade THEN open_conns + 1 ELSE open_conns
    /\ phase' = "responded"
    /\ UNCHANGED <<catalog, client, downloads, db_file, process>>

\* a teardown that drops the connection from g and leaves it open
close_db_connection_PopOnly ==
    /\ phase = "responded"
    /\ g_db_conn' = FALSE
    /\ phase' = "idle"
    /\ req' = NoRequest
    /\ resp' = NoResponse
    /\ UNCHANGED <<catalog, client, downloads, open_conns, db_file, process>>

\* teardown of the application context: the request's connection is popped
\* from g and closed, and the worker is free for the next request
close_db_connection ==
    /\ phase = "responded"
    /\ g_db_conn' = FALSE
    /\ open_conns' = IF g_db_conn THEN open_conns - 1 ELSE open_conns
    /\ phase' = "idle"
    /\ req' = NoRequest
    /\ resp' = NoResponse
    /\ UNCHANGED <<catalog, client, downloads, db_file, process>>

Next ==
    \/ opds_books
    \/ opds_authors
    \/ opds_series
    \/ opds_tags
    \/ api_books
    \/ close_db_connection

Spec == Init /\ [][Next]_vars

----------------------------------------------------------------------------
(* A client that reads one book list page by page: the same filters and page
   size in every request, the offsets 0, L, 2L, ... until a feed comes without
   a next link.  Every request is a request of its own to opds_books. *)

client_fetch_page ==
    /\ phase = "idle"
    /\ \E search \in SearchInputs, author \in AuthorInputs, series \in SeriesInputs,
          tag \in TagInputs, limit \in PageSizes :
          LET offset == IF client.started THEN Len(client.pages) * limit ELSE 0
          IN  /\ client.started =>
                    /\ ~client.done
                    /\ client.search = search /\ client.author = author
                    /\ client.series = series /\ client.tag = tag
                    /\ client.limit = limit
              /\ \E order \in BookOrders(search, author, series, tag) :
                    /\ req' = [ route |-> "opds_books", search |-> search,
                                author |-> author, series |-> series, tag |-> tag,
                                limit |-> limit, offset |-> offset ]
                    /\ resp' = OpdsBooksResponse(search, author, series, tag,
                                                 Min(limit, MaxLimit), offset, order)
                    /\ client' = [ started |-> TRUE,
                                   search  |-> search,
                                   author  |-> author,
                                   series  |-> series,
                                   tag     |-> tag,
                                   limit   |-> limit,
                                   pages   |-> (IF client.started THEN client.pages ELSE <<>>)
                                               \o << resp'.entries >>,
                                   total   |-> resp'.total_results,
                                   next    |-> resp'.next,
                                   done    |-> resp'.next = <<>> ]
    /\ g_db_conn' = TRUE
    /\ open_conns' = open_conns + 1
    /\ phase' = "responded"
    /\ UNCHANGED <<catalog, downloads, db_file, process>>

PagingNext ==
    \/ client_fetch_page
    \/ close_db_connection

PagingSpec == Init /\ [][PagingNext]_vars

----------------------------------------------------------------------------
(* Downloads and book details: one book with its format rows and its
   directory on the content store, requests to /download/<id>/<format> and to
   /opds/book/<id>. *)

\* the id of the book of the catalog
DownloadBookIds == { 42 }

\* the ids the requests name: the book, and an id without a book
RequestBookIds == DownloadBookIds \cup { 7 }

\* a format code that format_extension_map has no entry for
CBZ == << "C", "B", "Z" >>

\* the format as the URL names it
FormatInputs == { EPUB, << "e", "p", "u", "b" >>, PDF, CBZ }

\* the on-record file names of the format rows
PlainName == << "n" >>

SuffixedName == << "x", ".", "E", "P", "U", "B" >>

\* the rows of table data of the book, in ORDER BY format; the table has at
\* most one row for a book and a format code
FormatRow(code, size, name) == [ format |-> code, size |-> size, filename |-> name ]

FormatRowInputs ==
    { <<>>,
      << FormatRow(EPUB, 10, PlainName) >>,
      << FormatRow(EPUB, 10, SuffixedName) >>,
      << FormatRow(EPUB, 10, PlainName), FormatRow(PDF, 10, PlainName) >>,
      << FormatRow(CBZ, 10, PlainName), FormatRow(EPUB, 10, PlainName),
         FormatRow(PDF, 30, PlainName) >> }

\* the files a book directory may hold
StoreFiles ==
    { PlainName,
      PlainName \o DotEpub,
      SuffixedName,
      << "e", "p", "u", "b" >> \o DotEpub }

MaxFiles == 2

\* the listings os.listdir may give: the files of the directory in any order
Listings ==
    UNION { { l \in [1..k -> StoreFiles] : \A i, j \in 1..k : i # j => l[i] # l[j] } :
            k \in 0..MaxFiles }

Directories == { NoDirectory } \cup { [ exists |-> TRUE, listing |-> l ] : l \in Listings }

\* the titles: any two of these parts, or one, or none
TitleParts ==
    { << "a" >>, << " " >>, << "\t" >>, << "?" >>, << "/" >>, DotEpub,
      << ".", "E", "P", "U", "B" >> }

TitleInputs == { x \o y : x, y \in TitleParts \cup { NoText } }

\* what becomes of the catalog while a request is served
StoreOutcomes == { "ok", "connect_error", "query_error" }

\* what the store can do to a request that names its outcome: with a catalog
\* file that is missing or corrupt get_connection raises, on a locked one the
\* statement raises, and on a valid one a request may still meet either error
StoreOutcomesNow ==
    IF db_file = "valid" THEN StoreOutcomes
    ELSE IF db_file = "locked" THEN { "query_error" }
    ELSE { "connect_error" }

\* a directory that holds both on-record names
FullDirectory == [ exists |-> TRUE, listing |-> << PlainName, SuffixedName >> ]

\* The file a download resolves to depends on the format row and the
\* directory, its download name on the id, the title and the format code: the
\* catalogs are those with any title over the full directory and those with
\* any directory under the plain title.
DownloadInit ==
    /\ \E title \in TitleInputs :
          books = [ id \in DownloadBookIds |->
                      [ title |-> title, author_sort |-> << "A" >>, last_modified |-> 1 ] ]
    /\ authors_link = {}
    /\ series_link = {}
    /\ tags_link = {}
    /\ data \in [ DownloadBookIds -> FormatRowInputs ]
    /\ store \in [ DownloadBookIds -> Directories ]
    /\ \A id \in DownloadBookIds : books[id].title = << "a" >> \/ store[id] = FullDirectory
    /\ phase = "idle"
    /\ g_db_conn = FALSE
    /\ open_conns = 0
    /\ req = NoRequest
    /\ resp = NoResponse
    /\ client = NoClient
    /\ downloads = {}
    /\ db_file = "valid"
    /\ ProcessStart

\* GET /download/<book_id>/<filename>.  get_connection may raise before a
\* connection is made, or a statement may raise on the connection it made:
\* both end in the handler's except clause.
download_book ==
    /\ phase = "idle"
    /\ \E book_id \in RequestBookIds, filename \in FormatInputs, outcome \in StoreOutcomesNow :
          /\ req' = [ route |-> "download_book", book_id |-> book_id,
                      filename |-> filename, outcome |-> outcome ]
          /\ resp' = IF outcome = "ok"
                     THEN DownloadBookResponse(book_id, filename)
                     ELSE DownloadError(500, "internal", <<>>)
          /\ g_db_conn' = (outcome # "connect_error")
          /\ open_conns' = IF outcome # "connect_error" THEN open_conns + 1 ELSE open_conns
          /\ downloads' = IF resp'.status = 200
                          THEN downloads \cup
                               { << book_id, StrUpper(filename), resp'.file, filename >> }
                          ELSE downloads
    /\ phase' = "responded"
    /\ UNCHANGED <<catalog, client, db_file, process>>

\* GET /opds/book/<book_id>: the handler has no except clause, an error of
\* the catalog leaves it as an exception and Flask answers 500
opds_book_detail ==
    /\ phase = "idle"
    /\ \E book_id \in RequestBookIds, outcome \in StoreOutcomesNow :
          /\ req' = [ route |-> "opds_book_detail", book_id |-> book_id, outcome |-> outcome ]
          /\ resp' = IF outcome # "ok"
                     THEN [ status |-> 500, kind |-> "error", links |-> <<>> ]
                     ELSE IF book_id \notin DOMAIN books
                     THEN [ status |-> 404, kind |-> "error", links |-> <<>> ]
                     ELSE [ status |-> 200, kind |-> "entry",
                            links  |-> create_entry(book_id, data[book_id]) ]
          /\ g_db_conn' = (outcome # "connect_error")
          /\ open_conns' = IF outcome # "connect_error" THEN open_conns + 1 ELSE open_conns
    /\ phase' = "responded"
    /\ UNCHANGED <<catalog, client, downloads, db_file, process>>

DownloadNext ==
    \/ download_book
    \/ opds_book_detail
    \/ close_db_connection

DownloadSpec == DownloadInit /\ [][DownloadNext]_vars

----------------------------------------------------------------------------
(* The JSON endpoints and the requests on a catalog that fails *)

\* one book with its format rows, behind a catalog file in any state
ErrorInit ==
    /\ books = [ id \in DownloadBookIds |->
                   [ title |-> << "a" >>, author_sort |-> << "A" >>, last_modified |-> 1 ] ]
    /\ authors_link \in SUBSET (DownloadBookIds \X AuthorNames)
    /\ series_link = {}
    /\ tags_link = {}
    /\ data \in [ DownloadBookIds -> FormatRowInputs ]
    /\ store = [ id \in DownloadBookIds |-> NoDirectory ]
    /\ phase = "idle"
    /\ g_db_conn = FALSE
    /\ open_conns = 0
    /\ req = NoRequest
    /\ resp = NoResponse
    /\ client = NoClient
    /\ downloads = {}
    /\ db_file \in DbFileStates
    /\ ProcessStart

\* the connection of a request that names its outcome
RequestConnection(outcome) ==
    /\ g_db_conn' = (outcome # "connect_error")
    /\ open_conns' = IF outcome # "connect_error" THEN open_conns + 1 ELSE open_conns

\* GET /api/book/<book_id>: no except clause, as in opds_book_detail
api_book_detail ==
    /\ phase = "idle"
    /\ \E book_id \in RequestBookIds, outcome \in StoreOutcomesNow :
          /\ req' = [ route |-> "api_book_detail", book_id |-> book_id, outcome |-> outcome ]
          /\ resp' = IF outcome # "ok"
                     THEN InternalServerError
                     ELSE IF book_id \notin DOMAIN books
                     THEN [ status |-> 404, kind |-> "json" ]
                     ELSE [ status |-> 200, kind |-> "json", book |-> book_id,
                            formats |-> data[book_id] ]
          /\ RequestConnection(outcome)
    /\ phase' = "responded"
    /\ UNCHANGED <<catalog, client, downloads, db_file, process>>

\* GET /api/stats: every exception is answered with 500
api_stats ==
    /\ phase = "idle"
    /\ \E outcome \in StoreOutcomesNow :
          /\ req' = [ route |-> "api_stats", outcome |-> outcome ]
          /\ resp' = IF outcome # "ok"
                     THEN [ status |-> 500, kind |-> "json" ]
                     ELSE [ status |-> 200, kind |-> "json",
                            total_books |-> Cardinality(DOMAIN books) ]
          /\ RequestConnection(outcome)
    /\ phase' = "responded"
    /\ UNCHANGED <<catalog, client, downloads, db_file, process>>

\* GET /api/health: 503 when the connection's SELECT 1 fails ('unhealthy') and
\* when get_connection or the count raises ('error')
api_health ==
    /\ phase = "idle"
    /\ \E outcome \in StoreOutcomesNow :
          /\ req' = [ route |-> "api_health", outcome |-> outcome ]
          /\ \E database \in IF outcome = "query_error" THEN { "unhealthy", "error" }
                             ELSE { "error" } :
                resp' = IF outcome # "ok"
                        THEN [ status |-> 503, kind |-> "json", database |-> database ]
                        ELSE [ status |-> 200, kind |-> "json", database |-> "healthy" ]
          /\ RequestConnection(outcome)
    /\ phase' = "responded"
    /\ UNCHANGED <<catalog, client, downloads, db_file, process>>

\* GET /api/diagnose: the database test and the sample-book test have their
\* own except clauses, which write the error into the report; the report is
\* returned with status 200
api_diagnose ==
    /\ phase = "idle"
    /\ \E outcome \in StoreOutcomesNow :
          /\ req' = [ route |-> "api_diagnose", outcome |-> outcome ]
          /\ resp' = [ status   |-> 200,
                       kind     |-> "json",
                       database |-> IF outcome = "ok" THEN "ok" ELSE "error" ]
          /\ RequestConnection(outcome)
    /\ phase' = "responded"
    /\ UNCHANGED <<catalog, client, downloads, db_file, process>>

ErrorNext ==
    \/ opds_books
    \/ opds_authors
    \/ opds_series
    \/ opds_tags
    \/ api_books
    \/ opds_book_detail
    \/ api_book_detail
    \/ api_stats
    \/ api_health
    \/ api_diagnose
    \/ close_db_connection

ErrorSpec == ErrorInit /\ [][ErrorNext]_vars

----------------------------------------------------------------------------
(* The worker threads: get_connection, close_connection and
   get_connection_stats statement by statement, with any number of calls of
   get_connection in a request and any interleaving of the threads *)

MaxRequests == 3

\* the calls of get_connection in one request: one in a facet handler, two in
\* opds_books (the list and the count) and in api_diagnose
CallCounts == { 1, 2 }

ConnInit ==
    /\ books = << >>
    /\ authors_link = {}
    /\ series_link = {}
    /\ tags_link = {}
    /\ data = << >>
    /\ store = << >>
    /\ phase = "idle"
    /\ g_db_conn = FALSE
    /\ open_conns = 0
    /\ req = NoRequest
    /\ resp = NoResponse
    /\ client = NoClient
    /\ downloads = {}
    /\ db_file \in DbFileStates
    /\ ProcessStart

\* the thread t goes on as w
Step(t, w) == workers' = [ workers EXCEPT ![t] = w ]

\* a lock that never holds anyone back
LockFree_Always == TRUE

\* threading.Lock: free to be acquired
LockFree == stats_lock = 0

\* a g that never has the attribute
HasConnection_Never(w) == FALSE

\* hasattr(g, 'db_conn')
HasConnection(w) == w.conn # 0

\* a request arrives at a free thread; its handler makes k calls of
\* get_connection
begin_request(t) ==
    /\ workers[t].pc = "idle"
    /\ history.requests < MaxRequests
    /\ \E k \in CallCounts :
          Step(t, [ workers[t] EXCEPT !.pc = "check", !.calls = k, !.made = 0,
                                      !.reuses = 0, !.returned = {} ])
    /\ history' = [ history EXCEPT !.requests = @ + 1 ]
    /\ UNCHANGED <<catalog, request_cycle, db_file, validated, connection_stats, stats_lock>>

\* GET /api/connection-stats arrives at a free thread
api_connection_stats(t) ==
    /\ workers[t].pc = "idle"
    /\ history.requests < MaxRequests
    /\ Step(t, [ workers[t] EXCEPT !.pc = "stats_acquire", !.calls = 0, !.made = 0,
                                   !.reuses = 0, !.returned = {} ])
    /\ history' = [ history EXCEPT !.requests = @ + 1 ]
    /\ UNCHANGED <<catalog, request_cycle, db_file, validated, connection_stats, stats_lock>>

\* get_connection, line 167: the test of _validated, under no lock
get_connection_check(t) ==
    /\ workers[t].pc = "check"
    /\ Step(t, [ workers[t] EXCEPT !.pc = IF validated THEN "connect" ELSE "validate" ])
    /\ UNCHANGED <<catalog, request_cycle, db_file, validated, connection_stats,
                   stats_lock, history>>

\* get_connection, lines 168-177: the file is looked for and probed; when it
\* is a catalog _validated is set, otherwise the exception goes to the except
\* clause, which counts an error, and _validated stays unset
get_connection_validate(t) ==
    /\ workers[t].pc = "validate"
    /\ IF db_file = "valid"
       THEN /\ validated' = TRUE
            /\ Step(t, [ workers[t] EXCEPT !.pc = "connect" ])
            /\ history' = [ history EXCEPT !.validations = @ + 1 ]
       ELSE /\ validated' = validated
            /\ Step(t, [ workers[t] EXCEPT !.pc = "acquire", !.key = "errors" ])
            /\ history' = [ history EXCEPT !.validations = @ + 1, !.errors = @ + 1 ]
    /\ UNCHANGED <<catalog, request_cycle, db_file, connection_stats, stats_lock>>

\* get_connection, lines 180-184 and 197: a connection is made and put in g
\* when g has none, and the one in g is taken otherwise
get_connection_connect(t) ==
    /\ workers[t].pc = "connect"
    /\ IF ~HasConnection(workers[t])
       THEN /\ Step(t, [ workers[t] EXCEPT !.pc = "acquire", !.key = "created",
                                           !.conn = history.created + 1,
                                           !.made = @ + 1,
                                           !.returned = @ \cup { history.created + 1 } ])
            /\ history' = [ history EXCEPT !.created = @ + 1 ]
       ELSE /\ Step(t, [ workers[t] EXCEPT !.pc = "acquire", !.key = "reused",
                                           !.reuses = @ + 1,
                                           !.returned = @ \cup { workers[t].conn } ])
            /\ history' = [ history EXCEPT !.reused = @ + 1 ]
    /\ UNCHANGED <<catalog, request_cycle, db_file, validated, connection_stats, stats_lock>>

\* with self._stats_lock: the thread waits until the lock is free
stats_lock_acquire(t) ==
    /\ workers[t].pc = "acquire"
    /\ LockFree
    /\ stats_lock' = t
    /\ Step(t, [ workers[t] EXCEPT !.pc = "load" ])
    /\ UNCHANGED <<catalog, request_cycle, db_file, validated, connection_stats, history>>

\* self._connection_stats[key] += 1, the read
stats_load(t) ==
    /\ workers[t].pc = "load"
    /\ Step(t, [ workers[t] EXCEPT !.pc = "store", !.tmp = connection_stats[workers[t].key] ])
    /\ UNCHANGED <<catalog, request_cycle, db_file, validated, connection_stats,
                   stats_lock, history>>

\* self._connection_stats[key] += 1, the write, and the end of the with block.
\* After 'created' and 'reused' get_connection returns and after 'errors' it
\* raises: the handler goes to its next call, or ends; after 'closed' the
\* teardown is over
stats_store(t) ==
    /\ workers[t].pc = "store"
    /\ connection_stats' = [ connection_stats EXCEPT ![workers[t].key] = workers[t].tmp + 1 ]
    /\ stats_lock' = 0
    /\ Step(t, IF workers[t].key = "closed"
               THEN [ workers[t] EXCEPT !.pc = "idle", !.key = "none", !.tmp = 0 ]
               ELSE [ workers[t] EXCEPT !.pc = IF workers[t].calls > 1 THEN "check"
                                               ELSE "teardown",
                                        !.calls = @ - 1, !.key = "none", !.tmp = 0 ])
    /\ UNCHANGED <<catalog, request_cycle, db_file, validated, history>>

\* close_db_connection and close_connection, up to conn.close(): the
\* connection is popped from g and closed
teardown(t) ==
    /\ workers[t].pc = "teardown"
    /\ IF workers[t].conn # 0
       THEN /\ Step(t, [ workers[t] EXCEPT !.pc = "acquire", !.key = "closed", !.conn = 0 ])
            /\ history' = [ history EXCEPT !.closed = @ + 1 ]
       ELSE /\ Step(t, [ workers[t] EXCEPT !.pc = "idle" ])
            /\ history' = history
    /\ UNCHANGED <<catalog, request_cycle, db_file, validated, connection_stats, stats_lock>>

\* get_connection_stats, line 231: with self._stats_lock
get_connection_stats_acquire(t) ==
    /\ workers[t].pc = "stats_acquire"
    /\ LockFree
    /\ stats_lock' = t
    /\ Step(t, [ workers[t] EXCEPT !.pc = "stats_copy" ])
    /\ UNCHANGED <<catalog, request_cycle, db_file, validated, connection_stats, history>>

\* the increments of the counter k that have been begun and not yet written
Pending(k) ==
    Cardinality({ t \in Threads : /\ workers[t].key = k
                                  /\ workers[t].pc \in { "acquire", "load", "store" } })

\* get_connection_stats, line 232: the copy, and the end of the with block
get_connection_stats_copy(t) ==
    /\ workers[t].pc = "stats_copy"
    /\ stats_lock' = 0
    /\ Step(t, [ workers[t] EXCEPT !.pc = "teardown",
                                   !.snapshot = connection_stats,
                                   !.events = [ k \in StatKeys |-> history[k] - Pending(k) ] ])
    /\ UNCHANGED <<catalog, request_cycle, db_file, validated, connection_stats, history>>

ConnNext ==
    \/ \E t \in Threads : begin_request(t)
    \/ \E t \in Threads : api_connection_stats(t)
    \/ \E t \in Threads : get_connection_check(t)
    \/ \E t \in Threads : get_connection_validate(t)
    \/ \E t \in Threads : get_connection_connect(t)
    \/ \E t \in Threads : stats_lock_acquire(t)
    \/ \E t \in Threads : stats_load(t)
    \/ \E t \in Threads : stats_store(t)
    \/ \E t \in Threads : teardown(t)
    \/ \E t \in Threads : get_connection_stats_acquire(t)
    \/ \E t \in Threads : get_connection_stats_copy(t)

ConnSpec == ConnInit /\ [][ConnNext]_vars

----------------------------------------------------------------------------
(* Properties *)

BooksFeedAnswered ==
    phase = "responded" /\ req.route = "opds_books" /\ resp.kind = "feed"

ApiBooksAnswered == phase = "responded" /\ req.route = "api_books"

FacetAnswered ==
    phase = "responded" /\ resp.kind = "navigation"

\* the limit and the offset the specification prescribes for a request
ClampLimit(limit) == Max(1, Min(limit, MaxLimit))

ClampOffset(offset) == Max(offset, 0)

\* the link table a facet handler reads
LinkOf(route) ==
    IF route = "opds_authors" THEN authors_link
    ELSE IF route = "opds_series" THEN series_link
    ELSE tags_link

\* C1: for every combination of the filters search, author, series and tag
\* and every catalog, the count statement of opds_books executes and its
\* result is the number of rows the list statement returns for the same
\* filters with limit = that count and offset = 0, in whatever order the rows
\* come; get_books_count(search) agrees in the same way with
\* get_all_books(search=search).
C1_CountAgreesWithList ==
    /\ (phase = "responded" /\ req.route = "opds_books") =>
          LET cq == FilteredCountQuery(req.search, req.author, req.series, req.tag)
              n  == FetchCount(cq)
              q  == FilteredBooksQuery(req.search, req.author, req.series, req.tag, n, 0)
          IN  /\ Executes(cq, 0)
              /\ Executes(q, 2)
              /\ \A order \in BookOrders(req.search, req.author, req.series, req.tag) :
                    Len(FetchBooks(q, order)) = n
              /\ resp.kind = "feed" => resp.total_results = n
    /\ ApiBooksAnswered =>
          LET n == GetBooksCount(req.search)
          IN  \A order \in AllBooksOrders(req.search) :
                 Len(GetAllBooks(n, 0, req.search, order)) = n

\* a book list was counted under search and two link filters together, one
\* book of two matching
C1_Witness ==
    /\ BooksFeedAnswered
    /\ req.limit = 2 /\ req.offset = 0
    /\ Truthy(req.search) /\ Truthy(req.author) /\ Truthy(req.tag)
    /\ Cardinality(DOMAIN books) = 2
    /\ resp.total_results = 1

RECURSIVE SumLen(_)
SumLen(ps) == IF ps = <<>> THEN 0 ELSE Len(Head(ps)) + SumLen(Tail(ps))

\* C2: when a client has read the pages at offsets 0, L, 2L, ... of one
\* book list (fixed catalog, filters and page size L in [1,100], every page a
\* request of its own), the pages are pairwise disjoint in book id and their
\* lengths sum to the filtered count, also when books share a last_modified.
C2_PagesDisjointAndComplete ==
    (client.started /\ client.done) =>
        /\ SumLen(client.pages) = client.total
        /\ \A i, j \in DOMAIN client.pages :
              i # j =>
                 \A x \in DOMAIN client.pages[i], y \in DOMAIN client.pages[j] :
                    client.pages[i][x] # client.pages[j][y]

\* last_modified descending, and id ascending among equal last_modified
SortedWithIdTieBreak(ids) ==
    \A i, j \in DOMAIN ids :
       i < j =>
          \/ books[ids[i]].last_modified > books[ids[j]].last_modified
          \/ /\ books[ids[i]].last_modified = books[ids[j]].last_modified
             /\ ids[i] < ids[j]

\* C3: every book list returned by opds_books and by get_all_books is in
\* last_modified descending order, books of equal last_modified in ascending
\* id order.
C3_OrderedWithIdTieBreak ==
    (req.route \in {"opds_books", "api_books"}
       /\ req.limit \in 1..MaxLimit /\ req.offset >= 0) =>
        /\ BooksFeedAnswered => SortedWithIdTieBreak(resp.entries)
        /\ ApiBooksAnswered => SortedWithIdTieBreak(resp.books)

\* C4: whatever integers the client supplies as limit and offset, the limit
\* used by the book-list endpoints lies in [1, 100] and the offset used is >= 0.
C4_LimitAndOffsetClamped ==
    /\ BooksFeedAnswered =>
          /\ resp.items_per_page \in 1..MaxLimit
          /\ resp.start_index >= 0
    /\ ApiBooksAnswered =>
          /\ resp.limit \in 1..MaxLimit
          /\ resp.offset >= 0

\* C5: a book-list request with a limit or an offset out of range is not
\* answered with an error: its response is a feed the request with the
\* clamped limit and offset can be answered with.
C5_OutOfRangeAnsweredAsClamped ==
    (phase = "responded" /\ req.route = "opds_books") =>
        /\ resp.status = 200
        /\ \E order \in BookOrders(req.search, req.author, req.series, req.tag) :
              resp = OpdsBooksResponse(req.search, req.author, req.series, req.tag,
                                       ClampLimit(req.limit), ClampOffset(req.offset),
                                       order)

\* C6: a book-list feed has a next link exactly when offset + limit <
\* total_books, and the request the link leads to has the offset offset +
\* limit, the same limit and the same filters.
C6_NextLink ==
    BooksFeedAnswered =>
        /\ (resp.next # <<>>) <=>
              (resp.start_index + resp.items_per_page < resp.total_results)
        /\ resp.next # <<>> =>
              RequestOfLink(resp.next) =
                 [ search |-> req.search, author |-> req.author,
                   series |-> req.series, tag |-> req.tag,
                   limit  |-> resp.items_per_page,
                   offset |-> resp.start_index + resp.items_per_page ]

\* the first page of an author's books, with a next link; the author's name
\* has a space, which the link quotes
C6_Witness ==
    /\ BooksFeedAnswered
    /\ req.limit = 1 /\ req.offset = 0
    /\ Truthy(req.author)
    /\ resp.next # <<>>

\* C7: a book-list feed has a previous link exactly when offset > 0, and the
\* request the link leads to has the offset max(0, offset - limit), which is
\* never negative.
C7_PreviousLink ==
    BooksFeedAnswered =>
        /\ (resp.previous # <<>>) <=> (resp.start_index > 0)
        /\ resp.previous # <<>> =>
              /\ RequestOfLink(resp.previous).offset =
                    Max(0, resp.start_index - resp.items_per_page)
              /\ RequestOfLink(resp.previous).offset >= 0
              /\ RequestOfLink(resp.previous).limit = resp.items_per_page

\* a search feed whose previous link is clamped: the offset is smaller than
\* the limit
C7_Witness ==
    /\ BooksFeedAnswered
    /\ req.limit \in 1..MaxLimit
    /\ Truthy(req.search)
    /\ resp.previous # <<>>
    /\ resp.start_index < resp.items_per_page

\* C8: for a limit in [1, 100] the total page count of a book-list feed is
\* at least 1 and is ceil(total_books / limit) when books match; a filter
\* that matches no book gives totalResults = 0, one page and no entry.
C8_TotalPagesAtLeastOne ==
    (BooksFeedAnswered /\ req.limit \in 1..MaxLimit /\ req.offset >= 0) =>
        /\ resp.total_pages >= 1
        /\ resp.total_results > 0 =>
              /\ resp.total_pages * resp.items_per_page >= resp.total_results
              /\ (resp.total_pages - 1) * resp.items_per_page < resp.total_results
        /\ resp.total_results = 0 => (resp.total_pages = 1 /\ resp.entries = <<>>)

\* the text x occurs in the text y, letters compared without regard to case
ContainsText(x, y) ==
    \E k \in 0..(Len(y) - Len(x)) :
       \A i \in 1..Len(x) : Lower(x[i]) = Lower(y[k + i])

\* the book satisfies every filter of the request: search by occurrence in
\* title or author_sort, the others by name through the link table
SatisfiesFilters(id, r) ==
    /\ Truthy(r.search) =>
          \/ ContainsText(r.search, books[id].title)
          \/ ContainsText(r.search, books[id].author_sort)
    /\ Truthy(r.author) => <<id, r.author>> \in authors_link
    /\ Truthy(r.series) => <<id, r.series>> \in series_link
    /\ Truthy(r.tag) => <<id, r.tag>> \in tags_link

\* C9: with any of the filters supplied, a book is counted, and listed when
\* the page takes the whole list, exactly if it satisfies every supplied
\* filter, search being a substring match on title or author_sort and the
\* others exact name matches through the link tables.
C9_ListedIffAllFiltersHold ==
    (BooksFeedAnswered /\ req.limit >= 1 /\ req.offset >= 0) =>
        LET matching == { id \in DOMAIN books : SatisfiesFilters(id, req) }
        IN  /\ resp.total_results = Cardinality(matching)
            /\ (resp.start_index <= 0 /\ resp.items_per_page >= Cardinality(DOMAIN books)) =>
                  { resp.entries[i] : i \in DOMAIN resp.entries } = matching

\* C10: every entry of an author, series or tag listing has a book_count of
\* at least 1, equal to the number of books of the catalog linked to its
\* value; a value no book is linked to is not listed.
C10_FacetCounts ==
    FacetAnswered =>
        \A i \in DOMAIN resp.entries :
           LET linked == { id \in DOMAIN books :
                             <<id, resp.entries[i].name>> \in LinkOf(req.route) }
           IN  /\ resp.entries[i].book_count >= 1
               /\ resp.entries[i].book_count = Cardinality(linked)
               /\ linked # {}

\* an author listing with an entry, from a catalog whose link table also has a
\* row for a book that is not in the books table
C10_Witness ==
    /\ FacetAnswered
    /\ req.route = "opds_authors"
    /\ req.limit \in 1..MaxLimit /\ req.offset = 0
    /\ Len(resp.entries) >= 1
    /\ \E l \in authors_link : l[1] \notin DOMAIN books

----------------------------------------------------------------------------
(* Properties of downloads and book entries *)

\* a download request that the handler answered without an error of the catalog
DownloadAnswered ==
    /\ phase = "responded"
    /\ req.route = "download_book"
    /\ req.outcome = "ok"

\* the format rows of the requested book whose code is the requested one,
\* compared without regard to case
RequestedRows ==
    IF req.book_id \in DOMAIN books
    THEN { r \in { data[req.book_id][i] : i \in DOMAIN data[req.book_id] } :
             StrUpper(r.format) = StrUpper(req.filename) }
    ELSE {}

\* a download request for a format the book has
FormatRequested == DownloadAnswered /\ RequestedRows # {}

RequestedRow == CHOOSE r \in RequestedRows : TRUE

\* the extension expected of a format code: the table's, '.epub' for a code
\* outside the table
ExpectedExtension(code) ==
    IF StrUpper(code) \in ExtensionTableCodes
    THEN << "." >> \o StrLower(code)
    ELSE DotEpub

\* candidate (2) for the on-record name and the extension ext, if there is one
AppendedCandidates(name, ext) ==
    IF EndsWith(StrLower(name), StrLower(ext)) THEN {} ELSE { name \o ext }

\* candidates (3): the positions of the listing whose file ends with ext
ScanMatches(dir, ext) ==
    { i \in DOMAIN dir.listing : EndsWith(StrLower(dir.listing[i]), StrLower(ext)) }

\* the file the priority order (1), (2), (3) resolves to in directory dir for
\* the on-record name and the extension ext; NoFile if no candidate exists
PriorityChoice(dir, name, ext) ==
    IF FileExists(dir, name) THEN name
    ELSE IF \E c \in AppendedCandidates(name, ext) : FileExists(dir, c)
         THEN CHOOSE c \in AppendedCandidates(name, ext) : FileExists(dir, c)
    ELSE IF dir.exists /\ ScanMatches(dir, ext) # {}
         THEN dir.listing[CHOOSE i \in ScanMatches(dir, ext) :
                                \A j \in ScanMatches(dir, ext) : i <= j]
    ELSE NoFile

\* C11: a download of a format the book has is answered with the first
\* existing candidate of the priority order: the literal on-record name if it
\* is on disk (whatever the format code); else, for a code of the extension
\* table, the on-record name with the extension appended if that is on disk,
\* else the first directory entry with the extension; and a file that is
\* served is on disk.
C11_FirstExistingCandidate ==
    FormatRequested =>
        LET dir  == store[req.book_id]
            name == RequestedRow.filename
            code == StrUpper(RequestedRow.format)
        IN  /\ resp.status = 200 => FileExists(dir, resp.file)
            /\ FileExists(dir, name) => resp.status = 200 /\ resp.file = name
            /\ code \in ExtensionTableCodes =>
                  LET choice == PriorityChoice(dir, name, ExpectedExtension(code))
                  IN  /\ resp.file = choice
                      /\ resp.status = 200 <=> choice # NoFile

\* a directory-scan match is served, the two candidates before it not being on disk
C11_Witness ==
    /\ FormatRequested
    /\ resp.status = 200
    /\ StrUpper(RequestedRow.format) \in ExtensionTableCodes
    /\ resp.file # RequestedRow.filename
    /\ resp.file \notin AppendedCandidates(RequestedRow.filename,
                                           ExpectedExtension(RequestedRow.format))

\* C12: for a format code outside the extension table the extension is
\* '.epub', in file resolution (the appended candidate and the directory
\* scan) and in the download name.
C12_UnknownCodeUsesEpub ==
    (FormatRequested /\ StrUpper(RequestedRow.format) \notin ExtensionTableCodes) =>
        /\ resp.file = PriorityChoice(store[req.book_id], RequestedRow.filename, DotEpub)
        /\ resp.status = 200 => EndsWith(StrLower(resp.download_name), DotEpub)

\* C13: if the book's directory is absent or none of the candidates exists,
\* the download is answered 404 and no file is sent.
C13_NotFoundWithoutCandidate ==
    (FormatRequested /\
     PriorityChoice(store[req.book_id], RequestedRow.filename,
                    ExpectedExtension(RequestedRow.format)) = NoFile) =>
        /\ resp.status = 404
        /\ resp.kind = "error"
        /\ resp.file = NoFile

\* the directory is there and holds files, none of them a candidate
C13_Witness ==
    /\ FormatRequested
    /\ store[req.book_id].exists
    /\ store[req.book_id].listing # <<>>
    /\ PriorityChoice(store[req.book_id], RequestedRow.filename,
                      ExpectedExtension(RequestedRow.format)) = NoFile
    /\ resp.status = 404

\* C14: all downloads of one book and format, the catalog and the directory
\* listing being the same, were served the same file.
C14_ResolutionDeterministic ==
    \A d1, d2 \in downloads :
        (d1[1] = d2[1] /\ d1[2] = d2[2]) => d1[3] = d2[3]

\* one book and format was served to two requests (the code spelled differently)
C14_Witness ==
    \E d1, d2 \in downloads : d1[1] = d2[1] /\ d1[2] = d2[2] /\ d1[4] # d2[4]

\* a download that was served
Served == FormatRequested /\ resp.status = 200

\* "book_"
BookPrefix == << "b", "o", "o", "k", "_" >>

BeforeExtension(title, ext) ==
    LET stripped == RemoveIllegal(title)
    IN  IF EndsWith(StrLower(stripped), StrLower(ext))
        THEN SubSeq(stripped, 1, Len(stripped) - Len(ext))
        ELSE stripped

\* C16: the download name is never empty and never the extension alone
\* (matched without regard to case), and it is the default name whenever
\* stripping leaves nothing before the extension.
C16_NeverExtensionOnly ==
    Served =>
        LET ext == ExpectedExtension(RequestedRow.format)
        IN  /\ resp.download_name # <<>>
            /\ StrLower(resp.download_name) # StrLower(ext)
            /\ BeforeExtension(books[req.book_id].title, ext) = <<>> =>
                  resp.download_name = DefaultFilename(req.book_id, ext)

\* a name that needs no sanitizing: no illegal character and no space
Sanitized(name) == \A i \in 1..Len(name) : name[i] \notin IllegalChars \cup { " " }

\* a name that has more than the extension: before its final extension comes
\* a base name that is not empty, not whitespace and not the extension again
ProperlySuffixed(name, ext) ==
    /\ EndsWith(StrLower(name), StrLower(ext))
    /\ LET base == SubSeq(name, 1, Len(name) - Len(ext))
       IN  base # <<>> /\ ~IsBlank(base) /\ base # ext

\* C17: a title that is a sanitized, properly suffixed name is its own
\* download name, and the download name of a download name is that name
\* again: no second extension is appended.
C17_SynthesisIdempotent ==
    Served =>
        LET title == books[req.book_id].title
            code  == RequestedRow.format
            ext   == ExpectedExtension(code)
        IN  /\ (Sanitized(title) /\ ProperlySuffixed(title, ext)) =>
                  resp.download_name = title
            /\ DownloadName(req.book_id, resp.download_name, code) = resp.download_name

\* a download for a title that ends with the extension in capitals
C17_Witness ==
    /\ Served
    /\ Sanitized(books[req.book_id].title)
    /\ ProperlySuffixed(books[req.book_id].title, ExpectedExtension(RequestedRow.format))
    /\ ~EndsWith(books[req.book_id].title, ExpectedExtension(RequestedRow.format))

\* the entry of a book that opds_book_detail answered with
EntryRendered ==
    /\ phase = "responded"
    /\ req.route = "opds_book_detail"
    /\ resp.status = 200

\* C18: in the entry of a book with n >= 1 formats there is one link for each
\* format, in format order; exactly one has the open-access relation, the
\* first, and the others have the plain acquisition relation.
C18_OnePrimaryLink ==
    (EntryRendered /\ data[req.book_id] # <<>>) =>
        /\ Len(resp.links) = Len(data[req.book_id])
        /\ \A i \in DOMAIN resp.links :
              /\ resp.links[i].format = data[req.book_id][i].format
              /\ resp.links[i].rel = IF i = 1
                                     THEN "http://opds-spec.org/acquisition/open-access"
                                     ELSE "http://opds-spec.org/acquisition"
        /\ Cardinality({ i \in DOMAIN resp.links :
                           resp.links[i].rel = "http://opds-spec.org/acquisition/open-access" })
           = 1

\* an entry with three download links
C18_Witness == EntryRendered /\ Len(resp.links) >= 3

\* C19: a download of an existing book in a format the book does not have
\* is answered 404 with the book's format codes as the reason, and no file.
C19_UnknownFormatListsAvailable ==
    (DownloadAnswered /\ req.book_id \in DOMAIN books /\ RequestedRows = {}) =>
        /\ resp.status = 404
        /\ resp.reason = "format"
        /\ resp.available_formats =
              [ i \in DOMAIN data[req.book_id] |-> data[req.book_id][i].format ]
        /\ resp.file = NoFile

\* a format the book does not have is asked of a book with two formats
C19_Witness ==
    /\ DownloadAnswered
    /\ req.book_id \in DOMAIN books
    /\ RequestedRows = {}
    /\ Len(data[req.book_id]) >= 2

\* C20: the connections that are open are those the running request holds in
\* g, and between requests none is held and none is open.
C20_NoConnectionOutlivesRequest ==
    /\ open_conns = (IF g_db_conn THEN 1 ELSE 0)
    /\ phase = "idle" => (~g_db_conn /\ open_conns = 0)

\* a request that opened a connection has ended: its download is on record
C20_Witness == phase = "idle" /\ downloads # {} /\ open_conns = 0

----------------------------------------------------------------------------
(* Properties of a client that follows the next links, of the download names
   and of the page numbers *)

\* max(1, ceil(total_books / limit))
ExpectedFeeds(total_books, limit) == Max(1, (total_books + limit - 1) \div limit)

\* C24: a client that starts at offset 0 and follows the next links with a
\* limit in [1,100] visits the offsets 0, limit, 2*limit, ..., all below
\* max(1, total_books); while a feed has a next link, that link asks for the
\* next of these offsets with the same filters and limit; and the client is
\* done, at a feed without next link, exactly when it has visited
\* max(1, ceil(total_books / limit)) feeds, never more.
C24_NextLinkWalkTerminates ==
    (client.started /\ client.limit \in 1..MaxLimit) =>
        LET n == Len(client.pages)
        IN  /\ n <= ExpectedFeeds(client.total, client.limit)
            /\ \A i \in 1..n : (i - 1) * client.limit < Max(1, client.total)
            /\ client.done <=> n = ExpectedFeeds(client.total, client.limit)
            /\ ~client.done =>
                  RequestOfLink(client.next) =
                     [ search |-> client.search, author |-> client.author,
                       series |-> client.series, tag |-> client.tag,
                       limit  |-> client.limit,
                       offset |-> n * client.limit ]

\* the client has walked a list of two feeds to its end
C24_Witness ==
    /\ client.started
    /\ client.done
    /\ Len(client.pages) = 2
    /\ client.total = 2

\* C25: the download name of a served download has none of the characters
\* < > : " / \ | ? * and no space.
C25_DownloadNameHasNoIllegalCharacter ==
    Served =>
        \A i \in DOMAIN resp.download_name :
            resp.download_name[i] \notin IllegalChars \cup { " " }

\* a download for a title with a slash in it, which is not answered with the
\* default name
C25_Witness ==
    /\ Served
    /\ \E i \in DOMAIN books[req.book_id].title : books[req.book_id].title[i] = "/"
    /\ resp.download_name # DefaultFilename(req.book_id,
                                            ExpectedExtension(RequestedRow.format))

\* C27: in a book-list feed for an offset >= 0 and a limit in [1,100] the
\* current page number is at least 1 and at most the total page number (here
\* for the lists that have a book; the empty list has 0 pages, see C8).
C27_CurrentPageWithinTotal ==
    (BooksFeedAnswered /\ req.limit \in 1..MaxLimit /\ req.offset >= 0
       /\ resp.total_results >= 1) =>
        /\ 1 <= resp.current_page
        /\ resp.current_page <= resp.total_pages

\* a request that met a store error has been answered
StoreErrorRaised ==
    /\ phase = "responded"
    /\ IF "outcome" \in DOMAIN req THEN req.outcome # "ok" ELSE StoreFails

\* C23: a request that met a store error is answered with 503 on the health
\* and diagnose endpoints and with 500 on every other endpoint, never with 404
\* or 200.
C23_StoreErrorStatus ==
    StoreErrorRaised =>
        resp.status = IF req.route \in { "api_health", "api_diagnose" } THEN 503 ELSE 500

----------------------------------------------------------------------------
(* Properties of the connection counters and of the validation *)

AllIdle == \A t \in Threads : workers[t].pc = "idle"

\* C21: no increment of created, reused, closed or errors is lost under any
\* interleaving: each counter is the number of its events less the increments
\* still on their way, so when every request has finished created is the
\* number of connections opened and closed equals it; a thread reads or writes
\* a counter, or copies the counters for get_connection_stats, only while it
\* holds the lock, and the copy is the counters with every completed increment.
C21_NoLostIncrement ==
    /\ \A k \in StatKeys : connection_stats[k] + Pending(k) = history[k]
    /\ AllIdle => /\ connection_stats.created = history.created
                  /\ connection_stats.closed = history.created
    /\ \A t \in Threads :
          /\ workers[t].pc \in { "load", "store", "stats_copy" } => stats_lock = t
          /\ workers[t].snapshot = workers[t].events

\* every request has finished, two of them opened a connection each, and a
\* snapshot of the counters was taken after the first of them had opened its
\* connection
C21_Witness ==
    /\ AllIdle
    /\ history.requests = MaxRequests
    /\ connection_stats.created = 2
    /\ connection_stats.closed = 2
    /\ \E t \in Threads : workers[t].snapshot.created >= 1

\* C22: the validation of the catalog file is run at most once in the life of
\* the process.
C22_ValidatedAtMostOnce == history.validations <= 1

\* C26: in one request at most one connection is made, every call of
\* get_connection returns that one connection and a call counts as reused only
\* after the request made its connection; closed never exceeds created, and
\* the connections made and not yet closed are exactly those held, each by one
\* request, so none is closed twice.
C26_OneConnectionPerRequest ==
    /\ \A t \in Threads :
          /\ workers[t].made <= 1
          /\ Cardinality(workers[t].returned) <= 1
          /\ workers[t].reuses > 0 => workers[t].made = 1
    /\ connection_stats.closed <= connection_stats.created
    /\ history.closed <= history.created
    /\ history.created - history.closed =
          Cardinality({ t \in Threads : workers[t].conn # 0 })
    /\ \A t, u \in Threads :
          (t # u /\ workers[t].conn # 0) => workers[t].conn # workers[u].conn

\* a request made two calls of get_connection: one made the connection, the
\* other reused it, and the teardown has closed it
C26_Witness ==
    /\ \E t \in Threads : /\ workers[t].pc = "idle"
                          /\ workers[t].made = 1
                          /\ workers[t].reuses = 1
    /\ connection_stats.closed >= 1

====
